---------------------------- MODULE Spec2Model ----------------------------
(***************************************************************************)
(* Model of xline/src/storage/execute_error.rs: the ExecuteError enum, its *)
(* thiserror Display rendering, and `impl From<ExecuteError> for           *)
(* tonic::Status`.                                                         *)
(*                                                                         *)
(* Both operations are pure functions of one ExecuteError value.  The      *)
(* state machine holds one error value (drawn in Init from every variant   *)
(* with bounded payloads) and applies the conversion (Translate) and the   *)
(* rendering (Render) to it.                                               *)
(***************************************************************************)
EXTENDS Integers, Sequences, FiniteSets

VARIABLES err, status, rendered

vars == <<err, status, rendered>>

(***************************************************************************)
(* Bounds of the payload domains.                                          *)
(***************************************************************************)
\* i64 payloads range over -MaxRev..MaxRev, plus i64::MIN and i64::MAX.
MaxRev == 2
\* String payloads are all the strings over Alphabet of length <= MaxNameLen.
MaxNameLen == 2

(***************************************************************************)
(* i64 payloads.  An i64 is kept as a sign and the base-10^9 limbs of its  *)
(* magnitude, most significant first, so that i64::MIN and i64::MAX are    *)
(* values of the model.                                                    *)
(***************************************************************************)
Abs(n) == IF n < 0 THEN -n ELSE n

I64Of(n) == [neg |-> n < 0, limbs |-> <<Abs(n)>>]

\* i64::MAX = 9223372036854775807
I64_MAX == [neg |-> FALSE, limbs |-> <<9, 223372036, 854775807>>]

\* i64::MIN = -9223372036854775808
I64_MIN == [neg |-> TRUE, limbs |-> <<9, 223372036, 854775808>>]

I64s == {I64Of(n) : n \in (-MaxRev)..MaxRev} \cup {I64_MIN, I64_MAX}

Digit(d) ==
    CASE d = 0 -> "0" [] d = 1 -> "1" [] d = 2 -> "2" [] d = 3 -> "3"
      [] d = 4 -> "4" [] d = 5 -> "5" [] d = 6 -> "6" [] d = 7 -> "7"
      [] d = 8 -> "8" [] d = 9 -> "9"

RECURSIVE FmtNat(_)
\* The decimal digits of a natural number, no leading zeros.
FmtNat(n) == IF n < 10 THEN Digit(n) ELSE FmtNat(n \div 10) \o Digit(n % 10)

RECURSIVE FmtPad(_, _)
\* The last w decimal digits of n, zero padded.
FmtPad(n, w) == IF w = 0 THEN "" ELSE FmtPad(n \div 10, w - 1) \o Digit(n % 10)

RECURSIVE FmtLimbs(_)
FmtLimbs(ls) == IF ls = <<>> THEN "" ELSE FmtPad(Head(ls), 9) \o FmtLimbs(Tail(ls))

\* `{0}` of an i64: "-" for a negative value, then the decimal digits.
FmtI64(x) ==
    (IF x.neg THEN "-" ELSE "") \o FmtNat(Head(x.limbs)) \o FmtLimbs(Tail(x.limbs))

(***************************************************************************)
(* String payloads.                                                        *)
(***************************************************************************)
Alphabet == {"a", "b"}

RECURSIVE StringsUpTo(_)
StringsUpTo(n) ==
    IF n = 0 THEN {""}
    ELSE StringsUpTo(n - 1) \cup {s \o c : s \in StringsUpTo(n - 1), c \in Alphabet}

Strings == StringsUpTo(MaxNameLen)

(***************************************************************************)
(* tonic::Status: a code and a message.                                    *)
(***************************************************************************)
StatusNew(code, message) == [code |-> code, message |-> message]

(***************************************************************************)
(* crate::request_validation::ValidationError: an opaque value that has    *)
(* its own conversion to tonic::Status and its own rendering.  It is       *)
(* modelled by what those two produce, over a small set of outcomes.       *)
(***************************************************************************)
ValidationErrors ==
    [status : [code : {"InvalidArgument", "OutOfRange"},
               message : {"etcdserver: key is not provided", "invalid request",
                          "key is not provided"}],
     rendering : {"key is not provided", "invalid request"}]

ValidationErrorInto(v) == v.status

ValidationErrorToString(v) == v.rendering

(***************************************************************************)
(* enum ExecuteError: a tag and its payload (i64 fields, String fields,    *)
(* the nested ValidationError).                                            *)
(***************************************************************************)
Variant(tag, i, s, v) == [tag |-> tag, i |-> i, s |-> s, v |-> v]

InvalidRequest(v) == Variant("InvalidRequest", <<>>, <<>>, <<v>>)
KeyNotFound == Variant("KeyNotFound", <<>>, <<>>, <<>>)
RevisionTooLarge(a, b) == Variant("RevisionTooLarge", <<a, b>>, <<>>, <<>>)
RevisionCompacted(a, b) == Variant("RevisionCompacted", <<a, b>>, <<>>, <<>>)
LeaseNotFound(id) == Variant("LeaseNotFound", <<id>>, <<>>, <<>>)
LeaseExpired(id) == Variant("LeaseExpired", <<id>>, <<>>, <<>>)
LeaseTtlTooLarge(ttl) == Variant("LeaseTtlTooLarge", <<ttl>>, <<>>, <<>>)
LeaseAlreadyExists(id) == Variant("LeaseAlreadyExists", <<id>>, <<>>, <<>>)
AuthNotEnabled == Variant("AuthNotEnabled", <<>>, <<>>, <<>>)
AuthFailed == Variant("AuthFailed", <<>>, <<>>, <<>>)
UserNotFound(n) == Variant("UserNotFound", <<>>, <<n>>, <<>>)
UserAlreadyExists(n) == Variant("UserAlreadyExists", <<>>, <<n>>, <<>>)
UserAlreadyHasRole(u, r) == Variant("UserAlreadyHasRole", <<>>, <<u, r>>, <<>>)
NoPasswordUser == Variant("NoPasswordUser", <<>>, <<>>, <<>>)
RoleNotFound(n) == Variant("RoleNotFound", <<>>, <<n>>, <<>>)
RoleAlreadyExists(n) == Variant("RoleAlreadyExists", <<>>, <<n>>, <<>>)
RoleNotGranted(n) == Variant("RoleNotGranted", <<>>, <<n>>, <<>>)
RootRoleNotExist == Variant("RootRoleNotExist", <<>>, <<>>, <<>>)
PermissionNotGranted == Variant("PermissionNotGranted", <<>>, <<>>, <<>>)
PermissionNotGiven == Variant("PermissionNotGiven", <<>>, <<>>, <<>>)
InvalidAuthManagement == Variant("InvalidAuthManagement", <<>>, <<>>, <<>>)
InvalidAuthToken == Variant("InvalidAuthToken", <<>>, <<>>, <<>>)
TokenManagerNotInit == Variant("TokenManagerNotInit", <<>>, <<>>, <<>>)
TokenNotProvided == Variant("TokenNotProvided", <<>>, <<>>, <<>>)
TokenOldRevision(a, b) == Variant("TokenOldRevision", <<a, b>>, <<>>, <<>>)
DbError(d) == Variant("DbError", <<>>, <<d>>, <<>>)
PermissionDenied == Variant("PermissionDenied", <<>>, <<>>, <<>>)

\* Every constructible value, within the payload bounds.
ExecuteErrors ==
    {InvalidRequest(v) : v \in ValidationErrors}
    \cup {KeyNotFound, AuthNotEnabled, AuthFailed, NoPasswordUser, RootRoleNotExist,
          PermissionNotGranted, PermissionNotGiven, InvalidAuthManagement,
          InvalidAuthToken, TokenManagerNotInit, TokenNotProvided, PermissionDenied}
    \cup {RevisionTooLarge(a, b) : a \in I64s, b \in I64s}
    \cup {RevisionCompacted(a, b) : a \in I64s, b \in I64s}
    \cup {TokenOldRevision(a, b) : a \in I64s, b \in I64s}
    \cup {LeaseNotFound(id) : id \in I64s}
    \cup {LeaseExpired(id) : id \in I64s}
    \cup {LeaseTtlTooLarge(ttl) : ttl \in I64s}
    \cup {LeaseAlreadyExists(id) : id \in I64s}
    \cup {UserNotFound(n) : n \in Strings}
    \cup {UserAlreadyExists(n) : n \in Strings}
    \cup {RoleNotFound(n) : n \in Strings}
    \cup {RoleAlreadyExists(n) : n \in Strings}
    \cup {RoleNotGranted(n) : n \in Strings}
    \cup {UserAlreadyHasRole(u, r) : u \in Strings, r \in Strings}
    \cup {DbError(d) : d \in Strings}

(***************************************************************************)
(* #[derive(Error)]: the Display rendering (`to_string`) of each variant,  *)
(* from its #[error("...")] attribute.                                     *)
(***************************************************************************)
Display(e) ==
    CASE e.tag = "InvalidRequest" -> "invalid request"
      [] e.tag = "KeyNotFound" -> "key not found"
      [] e.tag = "RevisionTooLarge" ->
            "required revision " \o FmtI64(e.i[1])
                \o " is higher than current revision " \o FmtI64(e.i[2])
      [] e.tag = "RevisionCompacted" ->
            "required revision " \o FmtI64(e.i[1])
                \o " has been compacted, compacted revision is " \o FmtI64(e.i[2])
      [] e.tag = "LeaseNotFound" -> "lease " \o FmtI64(e.i[1]) \o " not found"
      [] e.tag = "LeaseExpired" -> "lease " \o FmtI64(e.i[1]) \o " is expired"
      [] e.tag = "LeaseTtlTooLarge" -> "lease ttl is too large: " \o FmtI64(e.i[1])
      [] e.tag = "LeaseAlreadyExists" -> "lease " \o FmtI64(e.i[1]) \o " already exists"
      [] e.tag = "AuthNotEnabled" -> "auth is not enabled"
      [] e.tag = "AuthFailed" -> "invalid username or password"
      [] e.tag = "UserNotFound" -> "user " \o e.s[1] \o " not found"
      [] e.tag = "UserAlreadyExists" -> "user " \o e.s[1] \o " already exists"
      [] e.tag = "UserAlreadyHasRole" ->
            "user " \o e.s[1] \o " already has role " \o e.s[2]
      [] e.tag = "NoPasswordUser" -> "password was given for no password user"
      [] e.tag = "RoleNotFound" -> "role " \o e.s[1] \o " not found"
      [] e.tag = "RoleAlreadyExists" -> "role " \o e.s[1] \o " already exists"
      [] e.tag = "RoleNotGranted" -> "role " \o e.s[1] \o " is not granted to the user"
      [] e.tag = "RootRoleNotExist" -> "root user does not have root role"
      [] e.tag = "PermissionNotGranted" -> "permission not granted to the role"
      [] e.tag = "PermissionNotGiven" -> "permission not given"
      [] e.tag = "InvalidAuthManagement" -> "invalid auth management"
      [] e.tag = "InvalidAuthToken" -> "invalid auth token"
      [] e.tag = "TokenManagerNotInit" -> "token manager is not initialized"
      [] e.tag = "TokenNotProvided" -> "token is not provided"
      [] e.tag = "TokenOldRevision" ->
            "token's revision " \o FmtI64(e.i[1])
                \o " is older than current revision " \o FmtI64(e.i[2])
      [] e.tag = "DbError" -> "db error: " \o e.s[1]
      [] e.tag = "PermissionDenied" -> "permission denied"

\* A rendering that forwards InvalidRequest to the nested error
\* (#[error(transparent)] in place of #[error("invalid request")]).
ToStringTransparent(e) ==
    IF e.tag = "InvalidRequest" THEN ValidationErrorToString(e.v[1]) ELSE Display(e)

\* A rendering of LeaseNotFound and RevisionCompacted without their fields.
ToStringNoFields(e) ==
    CASE e.tag = "LeaseNotFound" -> "lease not found"
      [] e.tag = "RevisionCompacted" -> "required revision has been compacted"
      [] OTHER -> Display(e)

\* err.to_string()
ToString(e) == Display(e)

(***************************************************************************)
(* impl From<ExecuteError> for tonic::Status: the arms of the match that   *)
(* yield a (code, message) pair.                                           *)
(***************************************************************************)
Match(e) ==
    CASE e.tag = "KeyNotFound" ->
            <<"InvalidArgument", "etcdserver: key not found">>
      [] e.tag = "RevisionTooLarge" ->
            <<"OutOfRange", "etcdserver: mvcc: required revision is a future revision">>
      [] e.tag = "RevisionCompacted" ->
            <<"OutOfRange", "etcdserver: mvcc: required revision has been compacted">>
      [] e.tag = "LeaseNotFound" ->
            <<"NotFound", "etcdserver: requested lease not found">>
      [] e.tag = "LeaseTtlTooLarge" ->
            <<"OutOfRange", "etcdserver: too large lease TTL">>
      [] e.tag = "LeaseAlreadyExists" ->
            <<"FailedPrecondition", "etcdserver: lease already exists">>
      [] e.tag = "AuthNotEnabled" ->
            <<"FailedPrecondition", "etcdserver: authentication is not enabled">>
      [] e.tag = "AuthFailed" ->
            <<"InvalidArgument",
              "etcdserver: authentication failed, invalid user ID or password">>
      [] e.tag = "UserNotFound" ->
            <<"FailedPrecondition", "etcdserver: user name not found">>
      [] e.tag = "UserAlreadyExists" ->
            <<"FailedPrecondition", "etcdserver: user name already exists">>
      [] e.tag = "RoleNotFound" ->
            <<"FailedPrecondition", "etcdserver: role name not found">>
      [] e.tag = "RoleAlreadyExists" ->
            <<"FailedPrecondition", "etcdserver: role name already exists">>
      [] e.tag = "RoleNotGranted" ->
            <<"FailedPrecondition", "etcdserver: role is not granted to the user">>
      [] e.tag = "RootRoleNotExist" ->
            <<"FailedPrecondition", "etcdserver: root user does not have root role">>
      [] e.tag = "PermissionNotGranted" ->
            <<"FailedPrecondition", "etcdserver: permission is not granted to the role">>
      [] e.tag = "PermissionNotGiven" ->
            <<"InvalidArgument", "etcdserver: permission not given">>
      [] e.tag \in {"InvalidAuthToken", "TokenOldRevision"} ->
            <<"Unauthenticated", "etcdserver: invalid auth token">>
      [] e.tag = "PermissionDenied" ->
            <<"PermissionDenied", "etcdserver: permission denied">>
      [] e.tag = "InvalidAuthManagement" ->
            <<"InvalidArgument", "etcdserver: invalid auth management">>
      [] e.tag = "LeaseExpired" -> <<"DeadlineExceeded", ToString(e)>>
      [] e.tag \in {"UserAlreadyHasRole", "NoPasswordUser", "TokenManagerNotInit"} ->
            <<"FailedPrecondition", ToString(e)>>
      [] e.tag = "TokenNotProvided" -> <<"InvalidArgument", ToString(e)>>
      [] e.tag = "DbError" -> <<"Internal", ToString(e)>>

\* Mutant: LeaseNotFound given the code of its neighbour LeaseAlreadyExists.
FromLeaseNotFoundWrongCode(e) ==
    IF e.tag = "InvalidRequest" THEN ValidationErrorInto(e.v[1])
    ELSE IF e.tag = "LeaseNotFound" THEN StatusNew("FailedPrecondition", Match(e)[2])
    ELSE StatusNew(Match(e)[1], Match(e)[2])

\* Mutant: KeyNotFound delegated to its own rendering, like TokenNotProvided.
FromKeyNotFoundDelegated(e) ==
    IF e.tag = "InvalidRequest" THEN ValidationErrorInto(e.v[1])
    ELSE IF e.tag = "KeyNotFound" THEN StatusNew("InvalidArgument", ToString(e))
    ELSE StatusNew(Match(e)[1], Match(e)[2])

\* Mutant: RevisionCompacted without the "mvcc: " namespace.
FromRevisionCompactedNoMvcc(e) ==
    IF e.tag = "InvalidRequest" THEN ValidationErrorInto(e.v[1])
    ELSE IF e.tag = "RevisionCompacted"
    THEN StatusNew("OutOfRange", "etcdserver: required revision has been compacted")
    ELSE StatusNew(Match(e)[1], Match(e)[2])

\* Mutant: InvalidRequest handled as one more arm of the match instead of
\* returning the nested error's conversion.
FromInvalidRequestWrapped(e) ==
    IF e.tag = "InvalidRequest" THEN StatusNew("InvalidArgument", ToString(e))
    ELSE StatusNew(Match(e)[1], Match(e)[2])

\* Mutant: TokenOldRevision delegated to its own rendering.
FromTokenOldRevisionDelegated(e) ==
    IF e.tag = "InvalidRequest" THEN ValidationErrorInto(e.v[1])
    ELSE IF e.tag = "TokenOldRevision" THEN StatusNew("Unauthenticated", ToString(e))
    ELSE StatusNew(Match(e)[1], Match(e)[2])

\* Mutant: the delegated arms prepend the etcd namespace to the rendering.
FromDelegatedPrefixed(e) ==
    IF e.tag = "InvalidRequest" THEN ValidationErrorInto(e.v[1])
    ELSE IF e.tag \in {"LeaseExpired", "UserAlreadyHasRole", "NoPasswordUser",
                       "TokenManagerNotInit", "TokenNotProvided", "DbError"}
    THEN StatusNew(Match(e)[1], "etcdserver: " \o Match(e)[2])
    ELSE StatusNew(Match(e)[1], Match(e)[2])

\* Mutant: the DbError arm replaced by a catch-all `_ => unreachable!()`,
\* so that the conversion panics and returns no status.
FromDbErrorUnreachable(e) ==
    IF e.tag = "InvalidRequest" THEN ValidationErrorInto(e.v[1])
    ELSE IF e.tag = "DbError"
    THEN [panic |-> "internal error: entered unreachable code"]
    ELSE StatusNew(Match(e)[1], Match(e)[2])

\* Mutant: LeaseAlreadyExists delegated to its own rendering, like LeaseExpired.
FromLeaseAlreadyExistsDelegated(e) ==
    IF e.tag = "InvalidRequest" THEN ValidationErrorInto(e.v[1])
    ELSE IF e.tag = "LeaseAlreadyExists" THEN StatusNew("FailedPrecondition", ToString(e))
    ELSE StatusNew(Match(e)[1], Match(e)[2])

\* fn from(err: ExecuteError) -> tonic::Status.  InvalidRequest returns the
\* nested error's own conversion; every other variant builds
\* Status::new(code, message) from its arm of the match.
From(e) ==
    IF e.tag = "InvalidRequest"
    THEN ValidationErrorInto(e.v[1])
    ELSE StatusNew(Match(e)[1], Match(e)[2])

(***************************************************************************)
(* The state machine: one error value, converted and rendered.             *)
(* status and rendered are Options: <<>> before the call, <<x>> after it.  *)
(***************************************************************************)
Init ==
    /\ err \in ExecuteErrors
    /\ status = <<>>
    /\ rendered = <<>>

\* let status: tonic::Status = err.into();
Translate ==
    /\ status = <<>>
    /\ status' = <<From(err)>>
    /\ UNCHANGED <<err, rendered>>

\* let text = err.to_string();
Render ==
    /\ rendered = <<>>
    /\ rendered' = <<ToString(err)>>
    /\ UNCHANGED <<err, status>>

Next == Translate \/ Render

Spec == Init /\ [][Next]_vars

(***************************************************************************)
(* Vocabulary of the properties.                                           *)
(***************************************************************************)
Translated == status # <<>>

Rendered == rendered # <<>>

\* The status the conversion returned, and the text the rendering returned.
St == status[1]

Txt == rendered[1]

\* The compatibility prefix of the wire messages.
EtcdPrefix == "etcdserver: "

StartsWith(s, p) == Len(s) >= Len(p) /\ SubSeq(s, 1, Len(p)) = p

\* The positions at which t occurs in s.
Occurrences(s, t) ==
    {k \in 1..(Len(s) - Len(t) + 1) : SubSeq(s, k, k + Len(t) - 1) = t}

Contains(s, t) == Occurrences(s, t) # {}

\* a occurs in s, and b occurs after the end of that occurrence.
ContainsInOrder(s, a, b) ==
    \E k \in Occurrences(s, a) : \E l \in Occurrences(s, b) : l >= k + Len(a)

\* The variants whose wire message is the rendering of the variant itself.
DelegatedVariants ==
    {"LeaseExpired", "UserAlreadyHasRole", "NoPasswordUser", "TokenManagerNotInit",
     "TokenNotProvided", "DbError"}

\* The variants whose wire message is a literal of the mapping table.
LiteralVariants ==
    {"KeyNotFound", "RevisionTooLarge", "RevisionCompacted", "LeaseNotFound",
     "LeaseTtlTooLarge", "LeaseAlreadyExists", "AuthNotEnabled", "AuthFailed",
     "UserNotFound", "UserAlreadyExists", "RoleNotFound", "RoleAlreadyExists",
     "RoleNotGranted", "RootRoleNotExist", "PermissionNotGranted",
     "PermissionNotGiven", "InvalidAuthToken", "TokenOldRevision",
     "PermissionDenied", "InvalidAuthManagement"}

\* The code column of the mapping table.
TableCode(tag) ==
    CASE tag \in {"KeyNotFound", "AuthFailed", "PermissionNotGiven",
                  "InvalidAuthManagement", "TokenNotProvided"} -> "InvalidArgument"
      [] tag \in {"RevisionTooLarge", "RevisionCompacted", "LeaseTtlTooLarge"} ->
            "OutOfRange"
      [] tag = "LeaseNotFound" -> "NotFound"
      [] tag = "LeaseExpired" -> "DeadlineExceeded"
      [] tag \in {"LeaseAlreadyExists", "AuthNotEnabled", "UserNotFound",
                  "UserAlreadyExists", "UserAlreadyHasRole", "NoPasswordUser",
                  "RoleNotFound", "RoleAlreadyExists", "RoleNotGranted",
                  "RootRoleNotExist", "PermissionNotGranted",
                  "TokenManagerNotInit"} -> "FailedPrecondition"
      [] tag \in {"InvalidAuthToken", "TokenOldRevision"} -> "Unauthenticated"
      [] tag = "PermissionDenied" -> "PermissionDenied"
      [] tag = "DbError" -> "Internal"

\* The message column of the mapping table, for the literal entries.
TableText(tag) ==
    CASE tag = "KeyNotFound" -> "key not found"
      [] tag = "RevisionTooLarge" -> "required revision is a future revision"
      [] tag = "RevisionCompacted" -> "required revision has been compacted"
      [] tag = "LeaseNotFound" -> "requested lease not found"
      [] tag = "LeaseTtlTooLarge" -> "too large lease TTL"
      [] tag = "LeaseAlreadyExists" -> "lease already exists"
      [] tag = "AuthNotEnabled" -> "authentication is not enabled"
      [] tag = "AuthFailed" -> "authentication failed, invalid user ID or password"
      [] tag = "UserNotFound" -> "user name not found"
      [] tag = "UserAlreadyExists" -> "user name already exists"
      [] tag = "RoleNotFound" -> "role name not found"
      [] tag = "RoleAlreadyExists" -> "role name already exists"
      [] tag = "RoleNotGranted" -> "role is not granted to the user"
      [] tag = "RootRoleNotExist" -> "root user does not have root role"
      [] tag = "PermissionNotGranted" -> "permission is not granted to the role"
      [] tag = "PermissionNotGiven" -> "permission not given"
      [] tag \in {"InvalidAuthToken", "TokenOldRevision"} -> "invalid auth token"
      [] tag = "PermissionDenied" -> "permission denied"
      [] tag = "InvalidAuthManagement" -> "invalid auth management"

\* The status codes of tonic::Code.
TonicCodes ==
    {"Ok", "Cancelled", "Unknown", "InvalidArgument", "DeadlineExceeded", "NotFound",
     "AlreadyExists", "PermissionDenied", "ResourceExhausted", "FailedPrecondition",
     "Aborted", "OutOfRange", "Unimplemented", "Internal", "Unavailable", "DataLoss",
     "Unauthenticated"}

(***************************************************************************)
(* C1.  For every value other than InvalidRequest, the code of the         *)
(* returned status is the one the mapping table gives for the variant.     *)
(***************************************************************************)
C1_CodeIsTableCode ==
    (Translated /\ err.tag # "InvalidRequest") => St.code = TableCode(err.tag)

\* A payload-carrying variant has been converted to the table's code.
C1_Witness ==
    /\ Translated
    /\ err = LeaseNotFound(I64Of(-1))
    /\ St.code = "NotFound"

(***************************************************************************)
(* C2 as stated.  For every value other than InvalidRequest, the delegated *)
(* variants included, the message begins with "etcdserver: ".              *)
(***************************************************************************)
C2_EveryMessagePrefixed ==
    (Translated /\ err.tag # "InvalidRequest") => StartsWith(St.message, EtcdPrefix)

(***************************************************************************)
(* C2 as amended.  The message begins with "etcdserver: " for every        *)
(* variant with a literal message; for the six delegated variants the      *)
(* message is the bare rendering and does not begin with the prefix.       *)
(***************************************************************************)
C2_LiteralMessagesPrefixed ==
    /\ (Translated /\ err.tag \in LiteralVariants) =>
            StartsWith(St.message, EtcdPrefix)
    /\ (Translated /\ err.tag \in DelegatedVariants) =>
            /\ ~StartsWith(St.message, EtcdPrefix)
            /\ St.message = ToString(err)

\* A literal variant and a delegated variant, converted.
C2_Witness ==
    /\ Translated
    /\ \/ err = KeyNotFound
       \/ err = TokenNotProvided /\ St.message = "token is not provided"

(***************************************************************************)
(* C3 as stated.  For every literal variant the message is exactly the     *)
(* prefix "etcdserver: " immediately followed by the table's text.         *)
(***************************************************************************)
C3_MessageIsPrefixThenTableText ==
    (Translated /\ err.tag \in LiteralVariants) =>
        St.message = EtcdPrefix \o TableText(err.tag)

(***************************************************************************)
(* C3 as amended.  For every literal variant the message is the prefix     *)
(* "etcdserver: " followed by the table's text, except that for            *)
(* RevisionTooLarge and RevisionCompacted "mvcc: " stands between the      *)
(* prefix and the table's text.                                            *)
(***************************************************************************)
C3_MessageIsPrefixMvccTableText ==
    (Translated /\ err.tag \in LiteralVariants) =>
        St.message =
            EtcdPrefix
                \o (IF err.tag \in {"RevisionTooLarge", "RevisionCompacted"}
                    THEN "mvcc: " ELSE "")
                \o TableText(err.tag)

\* A revision error converted: its message carries the mvcc namespace.
C3_Witness ==
    /\ Translated
    /\ err.tag = "RevisionCompacted"
    /\ St.message = "etcdserver: mvcc: required revision has been compacted"

(***************************************************************************)
(* C4.  Converting InvalidRequest(v) yields exactly the status that v's    *)
(* own conversion yields: same code, same message, no prefix added, and    *)
(* not the "invalid request" rendering of the wrapper.                     *)
(***************************************************************************)
C4_DelegationTransparency ==
    (Translated /\ err.tag = "InvalidRequest") => St = ValidationErrorInto(err.v[1])

\* An InvalidRequest converted whose nested status is neither
\* InvalidArgument, nor prefixed, nor the wrapper's rendering.
C4_Witness ==
    /\ Translated
    /\ err.tag = "InvalidRequest"
    /\ St.code = "OutOfRange"
    /\ St.message = "key is not provided"

(***************************************************************************)
(* C5 as stated.  The wire message of LeaseNotFound(id) contains the       *)
(* decimal text of id, and the wire message of                             *)
(* RevisionCompacted(requested, compactedAt) contains the text of          *)
(* requested followed later by the text of compactedAt.                    *)
(***************************************************************************)
C5_WireMessageEmbedsPayload ==
    /\ (Translated /\ err.tag = "LeaseNotFound") =>
            Contains(St.message, FmtI64(err.i[1]))
    /\ (Translated /\ err.tag = "RevisionCompacted") =>
            ContainsInOrder(St.message, FmtI64(err.i[1]), FmtI64(err.i[2]))

(***************************************************************************)
(* C5 as amended.  It is the Display rendering, not the wire message, of   *)
(* LeaseNotFound(id) that contains the decimal text of id, and the Display *)
(* rendering of RevisionCompacted(requested, compactedAt) that contains    *)
(* the text of requested followed later by the text of compactedAt; the    *)
(* wire messages of the two variants are fixed texts that contain neither. *)
(***************************************************************************)
C5_RenderingEmbedsPayload ==
    /\ (Rendered /\ err.tag = "LeaseNotFound") => Contains(Txt, FmtI64(err.i[1]))
    /\ (Rendered /\ err.tag = "RevisionCompacted") =>
            ContainsInOrder(Txt, FmtI64(err.i[1]), FmtI64(err.i[2]))
    /\ (Translated /\ err.tag = "LeaseNotFound") =>
            /\ St.message = "etcdserver: requested lease not found"
            /\ ~Contains(St.message, FmtI64(err.i[1]))
    /\ (Translated /\ err.tag = "RevisionCompacted") =>
            /\ St.message = "etcdserver: mvcc: required revision has been compacted"
            /\ ~Contains(St.message, FmtI64(err.i[1]))
            /\ ~Contains(St.message, FmtI64(err.i[2]))

\* RevisionCompacted(i64::MIN, 2), rendered with both fields and converted.
C5_Witness ==
    /\ Translated
    /\ Rendered
    /\ err = RevisionCompacted(I64_MIN, I64Of(2))
    /\ Txt = "required revision -9223372036854775808 has been compacted, "
                \o "compacted revision is 2"

(***************************************************************************)
(* C6.  For all a and b, TokenOldRevision(a, b) converts to exactly the    *)
(* status of InvalidAuthToken: code Unauthenticated and the fixed          *)
(* "invalid auth token" message, whatever a and b; the Display rendering   *)
(* of TokenOldRevision does contain a and b.                               *)
(***************************************************************************)
C6_PayloadSuppression ==
    /\ (Translated /\ err.tag = "TokenOldRevision") =>
            /\ St = From(InvalidAuthToken)
            /\ St = StatusNew("Unauthenticated", "etcdserver: invalid auth token")
    /\ (Rendered /\ err.tag = "TokenOldRevision") =>
            ContainsInOrder(Txt, FmtI64(err.i[1]), FmtI64(err.i[2]))

\* A TokenOldRevision with two different revisions, converted and rendered.
C6_Witness ==
    /\ Translated
    /\ Rendered
    /\ err = TokenOldRevision(I64Of(1), I64Of(2))
    /\ Txt = "token's revision 1 is older than current revision 2"

(***************************************************************************)
(* C7.  For the delegated variants the wire message is exactly the         *)
(* variant's Display rendering with the payload substituted verbatim, for  *)
(* every payload, the empty string and negative ids included.              *)
(***************************************************************************)
C7_DelegatedMessageIsRendering ==
    Translated =>
        /\ err.tag = "LeaseExpired" =>
                St.message = "lease " \o FmtI64(err.i[1]) \o " is expired"
        /\ err.tag = "UserAlreadyHasRole" =>
                St.message = "user " \o err.s[1] \o " already has role " \o err.s[2]
        /\ err.tag = "NoPasswordUser" =>
                St.message = "password was given for no password user"
        /\ err.tag = "TokenManagerNotInit" =>
                St.message = "token manager is not initialized"
        /\ err.tag = "TokenNotProvided" => St.message = "token is not provided"
        /\ err.tag = "DbError" => St.message = "db error: " \o err.s[1]

\* A negative lease id or an empty detail string, converted.
C7_Witness ==
    /\ Translated
    /\ \/ err = LeaseExpired(I64Of(-2)) /\ St.message = "lease -2 is expired"
       \/ err = DbError("") /\ St.message = "db error: "

(***************************************************************************)
(* C8.  Totality: for every value of each of the 27 variants, boundary     *)
(* payloads included, the conversion returns a status (a tonic code and a  *)
(* message) and does not fail; no variant is left without a mapping.       *)
(***************************************************************************)
C8_Totality ==
    /\ {e.tag : e \in ExecuteErrors} =
            LiteralVariants \cup DelegatedVariants \cup {"InvalidRequest"}
    /\ Cardinality({e.tag : e \in ExecuteErrors}) = 27
    /\ Translated =>
            /\ DOMAIN St = {"code", "message"}
            /\ St.code \in TonicCodes
            /\ St.message \in STRING

\* Boundary payloads converted: the i64 extremes, a zero ttl, an empty string.
C8_Witness ==
    /\ Translated
    /\ err \in {RevisionTooLarge(I64_MIN, I64_MAX), LeaseTtlTooLarge(I64Of(0)),
                DbError("")}

(***************************************************************************)
(* C9 as stated.  The Display rendering of InvalidRequest(v) is v's own    *)
(* rendering, for every v.                                                 *)
(***************************************************************************)
C9_InvalidRequestRendersNested ==
    (Rendered /\ err.tag = "InvalidRequest") => Txt = ValidationErrorToString(err.v[1])

(***************************************************************************)
(* C9 as amended.  The Display rendering of InvalidRequest(v) is the fixed *)
(* template "invalid request" for every v, whatever v's own rendering      *)
(* (only the conversion to a status is delegated to v); every other        *)
(* variant renders from its fixed template, as LeaseNotFound and           *)
(* RevisionCompacted do.                                                   *)
(***************************************************************************)
C9_InvalidRequestRendersTemplate ==
    Rendered =>
        /\ err.tag = "InvalidRequest" => Txt = "invalid request"
        /\ err.tag = "LeaseNotFound" =>
                Txt = "lease " \o FmtI64(err.i[1]) \o " not found"
        /\ err.tag = "RevisionCompacted" =>
                Txt = "required revision " \o FmtI64(err.i[1])
                        \o " has been compacted, compacted revision is "
                        \o FmtI64(err.i[2])

\* An InvalidRequest rendered whose nested error renders differently.
C9_Witness ==
    /\ Rendered
    /\ err.tag = "InvalidRequest"
    /\ ValidationErrorToString(err.v[1]) = "key is not provided"
    /\ Txt = "invalid request"

=============================================================================
